---- MODULE Spec2Model ----
(***************************************************************************)
(* Model of the master.xml -> watsonx.data migration scripts:               *)
(*   xml_parser.py   (MasterXMLParser)                                      *)
(*   archive_flow.py (ArchiveFlowOrchestrator)                              *)
(*                                                                          *)
(* A Python str is a sequence of one-character strings; Python None is the  *)
(* value None below, which is no str because its only element is not a      *)
(* single character.                                                        *)
(***************************************************************************)
EXTENDS Integers, Sequences, FiniteSets, TLC

VARIABLES
    doc,               \* the parsed XML tree held by the parser (self.root)
    pc,                \* position of the running script
    call,              \* the method call in progress: arguments, return value, exception
    params,            \* return value of get_global_params
    tables,            \* parse_all_tables: the local list `tables`
    ti,                \* parse_all_tables: index of the next TABLE child
    assets,            \* run_archive_flow: the local `assets`
    source_files_map,  \* run_archive_flow: its argument
    ai,                \* run_archive_flow: index of the next asset
    results,           \* run_archive_flow: the local `results`
    successful,        \* run_archive_flow: the local counter
    failed,            \* run_archive_flow: the local counter
    steps,             \* log of the collaborator steps run, as <<asset index, step, outcome>>
    summary            \* return value of run_archive_flow

vars == <<doc, pc, call, params, tables, ti, assets, source_files_map, ai,
          results, successful, failed, steps, summary>>

(***************************************************************************)
(* Bounds of the model.                                                    *)
(***************************************************************************)
MaxPrecision == 11
MaxScale == 2
MaxCols == 3
MaxSepLen == 3
MaxTables == 2
MaxParams == 2
MaxElems == 2

(***************************************************************************)
(* Python values and str methods.                                          *)
(***************************************************************************)
None == <<"None">>

\* Python truthiness of an Optional[str]: None and '' are falsy.
Truthy(x) == x # None /\ x # <<>>

Lowers == <<"a", "b", "c", "d", "e", "f", "g", "h", "i", "j", "k", "l", "m",
            "n", "o", "p", "q", "r", "s", "t", "u", "v", "w", "x", "y", "z">>
Uppers == <<"A", "B", "C", "D", "E", "F", "G", "H", "I", "J", "K", "L", "M",
            "N", "O", "P", "Q", "R", "S", "T", "U", "V", "W", "X", "Y", "Z">>
Digits == <<"0", "1", "2", "3", "4", "5", "6", "7", "8", "9">>

IndexOf(c, seq) == CHOOSE k \in 1..Len(seq) : seq[k] = c
InSeq(c, seq) == \E k \in 1..Len(seq) : seq[k] = c

\* str.upper() and str.lower() on ASCII text
UpperChar(c) == IF InSeq(c, Lowers) THEN Uppers[IndexOf(c, Lowers)] ELSE c
LowerChar(c) == IF InSeq(c, Uppers) THEN Lowers[IndexOf(c, Uppers)] ELSE c
Upper(s) == [k \in 1..Len(s) |-> UpperChar(s[k])]
Lower(s) == [k \in 1..Len(s) |-> LowerChar(s[k])]

\* str.endswith(suffix)
EndsWith(s, suffix) ==
    /\ Len(s) >= Len(suffix)
    /\ SubSeq(s, Len(s) - Len(suffix) + 1, Len(s)) = suffix

\* str(int), as an f-string renders an int
RECURSIVE DecNat(_)
DecNat(n) == IF n < 10 THEN <<Digits[n + 1]>>
             ELSE DecNat(n \div 10) \o <<Digits[(n % 10) + 1]>>
Dec(n) == IF n < 0 THEN <<"-">> \o DecNat(-n) ELSE DecNat(n)

\* int(str): surrounding whitespace is stripped, one sign is allowed, the
\* digits may be grouped by single underscores; anything else is ValueError.
IsSpace(c) == c \in {" ", "\t", "\n"}
RECURSIVE LStrip(_)
LStrip(s) == IF s # <<>> /\ IsSpace(Head(s)) THEN LStrip(Tail(s)) ELSE s
RECURSIVE RStrip(_)
RStrip(s) == IF s # <<>> /\ IsSpace(s[Len(s)]) THEN RStrip(SubSeq(s, 1, Len(s) - 1)) ELSE s
Strip(s) == RStrip(LStrip(s))
Unsigned(s) == IF s # <<>> /\ Head(s) \in {"+", "-"} THEN Tail(s) ELSE s
IsDigits(b) ==
    /\ b # <<>>
    /\ InSeq(b[1], Digits)
    /\ InSeq(b[Len(b)], Digits)
    /\ \A k \in 1..Len(b) : InSeq(b[k], Digits) \/ b[k] = "_"
    /\ \A k \in 1..(Len(b) - 1) : ~(b[k] = "_" /\ b[k + 1] = "_")
IntOk(text) == IsDigits(Unsigned(Strip(text)))
RECURSIVE DigitsValue(_, _)
DigitsValue(b, acc) ==
    IF b = <<>> THEN acc
    ELSE IF Head(b) = "_" THEN DigitsValue(Tail(b), acc)
    ELSE DigitsValue(Tail(b), 10 * acc + (IndexOf(Head(b), Digits) - 1))
IntValue(text) ==
    LET t == Strip(text)
        v == DigitsValue(Unsigned(t), 0)
    IN  IF Head(t) = "-" THEN -v ELSE v

\* str.replace(old, new): every non-overlapping occurrence, left to right
RECURSIVE Replace(_, _, _)
Replace(s, old, new) ==
    IF Len(s) < Len(old) THEN s
    ELSE IF SubSeq(s, 1, Len(old)) = old
         THEN new \o Replace(SubSeq(s, Len(old) + 1, Len(s)), old, new)
         ELSE <<Head(s)>> \o Replace(Tail(s), old, new)

(***************************************************************************)
(* String literals of the source.                                          *)
(***************************************************************************)
s_DECIMAL == <<"D", "E", "C", "I", "M", "A", "L">>
s_VARCHAR == <<"V", "A", "R", "C", "H", "A", "R">>
s_WVARCHAR == <<"W", "V", "A", "R", "C", "H", "A", "R">>
s_CHAR == <<"C", "H", "A", "R">>
s_WCHAR == <<"W", "C", "H", "A", "R">>
s_INT == <<"I", "N", "T">>
s_INTEGER == <<"I", "N", "T", "E", "G", "E", "R">>
s_SMALLINT == <<"S", "M", "A", "L", "L", "I", "N", "T">>
s_BIGINT == <<"B", "I", "G", "I", "N", "T">>
s_FLOAT == <<"F", "L", "O", "A", "T">>
s_DOUBLE == <<"D", "O", "U", "B", "L", "E">>
s_REAL == <<"R", "E", "A", "L">>
s_TIMESTAMP == <<"T", "I", "M", "E", "S", "T", "A", "M", "P">>
s_DATE == <<"D", "A", "T", "E">>
s_TIME == <<"T", "I", "M", "E">>
s_BOOLEAN == <<"B", "O", "O", "L", "E", "A", "N">>
s_BLOB == <<"B", "L", "O", "B">>
s_CLOB == <<"C", "L", "O", "B">>
s_VARBINARY == <<"V", "A", "R", "B", "I", "N", "A", "R", "Y">>
s_VARCHAR_65535 == s_VARCHAR \o <<"(", "6", "5", "5", "3", "5", ")">>
s_VARCHAR_255 == s_VARCHAR \o <<"(", "2", "5", "5", ")">>
s_unknown == <<"u", "n", "k", "n", "o", "w", "n">>
s_csv == <<"c", "s", "v">>
s_delimited == <<"d", "e", "l", "i", "m", "i", "t", "e", "d">>
s_bcp == <<"b", "c", "p">>
s_dot_txt == <<".", "t", "x", "t">>
s_dot_bcp == <<".", "b", "c", "p">>
s_NULL == <<"N", "U", "L", "L">>
s_comma == <<",">>
s_backslash_n == <<"\\", "n">>
s_linefeed == <<"\n">>
s_0 == <<"0">>
s_1 == <<"1">>
s_UNKNOWN == <<"U", "N", "K", "N", "O", "W", "N">>
s_iceberg_data == <<"i", "c", "e", "b", "e", "r", "g", "_", "d", "a", "t", "a">>
s_archive_data == <<"a", "r", "c", "h", "i", "v", "e", "_", "d", "a", "t", "a">>
s_parquet == <<"p", "a", "r", "q", "u", "e", "t">>
s_file == <<"f", "i", "l", "e">>
s_master_xml == <<"m", "a", "s", "t", "e", "r", ".", "x", "m", "l">>
s_migration_date == <<"2", "0", "2", "6", "-", "0", "2", "-", "1", "9">>
s_None == <<"N", "o", "n", "e">>
s_Archive_table == <<"A", "r", "c", "h", "i", "v", "e", " ", "t", "a", "b", "l", "e", " ">>
s_from == <<" ", "f", "r", "o", "m", " ">>
s_Wide_character == <<"W", "i", "d", "e", " ", "c", "h", "a", "r", "a", "c", "t", "e", "r", " ">>
s_mapped == <<" ", "m", "a", "p", "p", "e", "d", " ", "t", "o", " ", "s", "t", "a", "n", "d", "a", "r", "d", " ", "t", "y", "p", "e">>

(***************************************************************************)
(* MasterXMLParser.map_data_type                                           *)
(***************************************************************************)
\* the dict type_mapping, built on every call from precision and scale
type_mapping(precision, scale) ==
    (s_DECIMAL :> (IF scale > 0
                   THEN s_DECIMAL \o <<"(">> \o Dec(precision) \o <<",">> \o Dec(scale) \o <<")">>
                   ELSE s_DECIMAL \o <<"(">> \o Dec(precision) \o <<")">>))
    @@ (s_VARCHAR :> (s_VARCHAR \o <<"(">> \o Dec(precision) \o <<")">>))
    @@ (s_WVARCHAR :> (s_VARCHAR \o <<"(">> \o Dec(precision) \o <<")">>))
    @@ (s_CHAR :> (s_CHAR \o <<"(">> \o Dec(precision) \o <<")">>))
    @@ (s_WCHAR :> (s_CHAR \o <<"(">> \o Dec(precision) \o <<")">>))
    @@ (s_INT :> s_INTEGER)
    @@ (s_INTEGER :> s_INTEGER)
    @@ (s_SMALLINT :> s_SMALLINT)
    @@ (s_BIGINT :> s_BIGINT)
    @@ (s_FLOAT :> s_REAL)
    @@ (s_DOUBLE :> s_DOUBLE)
    @@ (s_REAL :> s_REAL)
    @@ (s_TIMESTAMP :> s_TIMESTAMP)
    @@ (s_DATE :> s_DATE)
    @@ (s_TIME :> s_TIME)
    @@ (s_BOOLEAN :> s_BOOLEAN)
    @@ (s_BLOB :> s_VARBINARY)
    @@ (s_CLOB :> s_VARCHAR_65535)

\* dict.get(key, default)
DictGet(d, key, default) == IF key \in DOMAIN d THEN d[key] ELSE default

\* variants of map_data_type: the token is looked up as written; a token
\* outside the table is returned as it came
map_data_type_noupper(original_type, precision, scale) ==
    DictGet(type_mapping(precision, scale), original_type, s_VARCHAR_255)

map_data_type_nofallback(original_type, precision, scale) ==
    LET base_type == Upper(original_type)
    IN  DictGet(type_mapping(precision, scale), base_type, base_type)

map_data_type(original_type, precision, scale) ==
    LET base_type == Upper(original_type)
    IN  DictGet(type_mapping(precision, scale), base_type, s_VARCHAR_255)

(***************************************************************************)
(* XML elements.  Element.find(tag) yields the first child with that tag   *)
(* or None; a child element is modelled by whether it is present and by    *)
(* its text, which ElementTree reports as None for an empty element.       *)
(* Element.get(name) yields the attribute or None.                         *)
(***************************************************************************)
Elem(text) == [present |-> TRUE, text |-> text]
NoElem == [present |-> FALSE, text |-> None]

\* Element.findall(tag) on a list of children
FindAll(children, tag) == SelectSeq(children, LAMBDA c : c.tag = tag)

\* an f-string renders None as the text None
Fmt(x) == IF x = None THEN s_None ELSE x

(***************************************************************************)
(* MasterXMLParser.parse_table                                             *)
(***************************************************************************)
\* the int(...) conversions of one COLUMN raise ValueError
column_raises(col) ==
    \/ col.PRECISION.present /\ Truthy(col.PRECISION.text) /\ ~IntOk(col.PRECISION.text)
    \/ col.SCALE.present /\ Truthy(col.SCALE.text) /\ ~IntOk(col.SCALE.text)

\* variant of nullable: only the text 0 is false
nullable_unless0(nullable_elem) ==
    IF nullable_elem.present /\ Truthy(nullable_elem.text)
    THEN nullable_elem.text # s_0
    ELSE TRUE

nullable(nullable_elem) ==
    IF nullable_elem.present /\ Truthy(nullable_elem.text)
    THEN nullable_elem.text = s_1
    ELSE TRUE

\* variant of column_def: the note is added for the type as written
column_def_exact_note(col) ==
    LET col_name == IF col.NAME # None THEN col.NAME ELSE <<>>
        type_elem == col.TYPE
        col_type == IF type_elem.present /\ Truthy(type_elem.text)
                    THEN type_elem.text ELSE s_VARCHAR
        precision_elem == col.PRECISION
        precision == IF precision_elem.present /\ Truthy(precision_elem.text)
                     THEN IntValue(precision_elem.text) ELSE 0
        scale_elem == col.SCALE
        scale == IF scale_elem.present /\ Truthy(scale_elem.text)
                 THEN IntValue(scale_elem.text) ELSE 0
        wxd_type == map_data_type(col_type, precision, scale)
        def == [name |-> col_name,
                type |-> col_type,
                precision |-> precision,
                scale |-> scale,
                nullable |-> nullable(col.NULLABLE),
                wxd_type |-> wxd_type]
    IN  IF Truthy(col_type) /\ col_type \in {s_WVARCHAR, s_WCHAR}
        THEN def @@ [notes |-> s_Wide_character \o col_type \o s_mapped]
        ELSE def

column_def(col) ==
    LET col_name == IF col.NAME # None THEN col.NAME ELSE <<>>
        type_elem == col.TYPE
        col_type == IF type_elem.present /\ Truthy(type_elem.text)
                    THEN type_elem.text ELSE s_VARCHAR
        precision_elem == col.PRECISION
        precision == IF precision_elem.present /\ Truthy(precision_elem.text)
                     THEN IntValue(precision_elem.text) ELSE 0
        scale_elem == col.SCALE
        scale == IF scale_elem.present /\ Truthy(scale_elem.text)
                 THEN IntValue(scale_elem.text) ELSE 0
        wxd_type == map_data_type(col_type, precision, scale)
        def == [name |-> col_name,
                type |-> col_type,
                precision |-> precision,
                scale |-> scale,
                nullable |-> nullable(col.NULLABLE),
                wxd_type |-> wxd_type]
    IN  IF Truthy(col_type) /\ Upper(col_type) \in {s_WVARCHAR, s_WCHAR}
        THEN def @@ [notes |-> s_Wide_character \o col_type \o s_mapped]
        ELSE def

\* the COLUMN children the loop visits, in document order
column_elems(table_elem) ==
    IF table_elem.COLUMNS.present
    THEN FindAll(table_elem.COLUMNS.children, "COLUMN")
    ELSE <<>>

\* variant of columns: a column replaces an earlier column of the same name
columns_by_name(table_elem) ==
    LET cols == column_elems(table_elem)
        last == SelectSeq([k \in 1..Len(cols) |-> k],
                          LAMBDA k : \A m \in (k + 1)..Len(cols) : cols[m].NAME # cols[k].NAME)
    IN  [k \in 1..Len(last) |-> column_def(cols[last[k]])]

columns(table_elem) ==
    LET cols == column_elems(table_elem)
    IN  [k \in 1..Len(cols) |-> column_def(cols[k])]

\* variant of file_format: the extension is compared as written
file_format_exact(file_path) ==
    IF file_path.present /\ Truthy(file_path.text)
    THEN IF EndsWith(file_path.text, s_dot_txt) THEN s_delimited
         ELSE IF EndsWith(file_path.text, s_dot_bcp) THEN s_bcp
         ELSE s_csv
    ELSE s_csv

file_format(file_path) ==
    IF file_path.present /\ Truthy(file_path.text)
    THEN LET path_lower == Lower(file_path.text)
         IN  IF EndsWith(path_lower, s_dot_txt) THEN s_delimited
             ELSE IF EndsWith(path_lower, s_dot_bcp) THEN s_bcp
             ELSE s_csv
    ELSE s_csv

\* variant of asset_id: only an absent attribute becomes `unknown`
asset_id_absent_only(database, schema, table_name) ==
    LET db_safe == IF database # None THEN Lower(database) ELSE s_unknown
        schema_safe == IF schema # None THEN Lower(schema) ELSE s_unknown
        table_safe == IF table_name # None THEN Lower(table_name) ELSE s_unknown
    IN  db_safe \o <<"_">> \o schema_safe \o <<"_">> \o table_safe

asset_id(database, schema, table_name) ==
    LET db_safe == IF Truthy(database) THEN Lower(database) ELSE s_unknown
        schema_safe == IF Truthy(schema) THEN Lower(schema) ELSE s_unknown
        table_safe == IF Truthy(table_name) THEN Lower(table_name) ELSE s_unknown
    IN  db_safe \o <<"_">> \o schema_safe \o <<"_">> \o table_safe

\* variant of target_def: the table name carries the schema as a prefix
target_def_prefixed(id) ==
    [catalog |-> s_iceberg_data,
     schema |-> s_archive_data,
     table |-> s_archive_data \o <<"_">> \o id,
     format |-> s_parquet]

\* the dict under 'target'
target_def(id) ==
    [catalog |-> s_iceberg_data,
     schema |-> s_archive_data,
     table |-> id,
     format |-> s_parquet]

\* variant of keep_data_value: only the text 0 is false
keep_data_unless0(keep_data) ==
    IF keep_data.present THEN keep_data.text # s_0 ELSE TRUE

\* the value under metadata.keep_data
keep_data_value(keep_data) ==
    IF keep_data.present THEN keep_data.text = s_1 ELSE TRUE

table_def(table_elem) ==
    LET table_name == table_elem.NAME
        database == table_elem.DATABASE
        schema == table_elem.SCHEMA
        keep_data == table_elem.KEEP_DATA
        col_sep == table_elem.COLUMN_SEPARATOR
        row_sep == table_elem.ROW_SEPARATOR
        null_ind == table_elem.NULL_INDICATOR
        file_path == table_elem.FILE_PATH
        sct_path == table_elem.SCT_PATH
        id == asset_id(database, schema, table_name)
    IN  [asset_id |-> id,
         name |-> table_name,
         database |-> database,
         schema |-> schema,
         description |-> s_Archive_table \o Fmt(table_name) \o s_from
                         \o Fmt(database) \o <<".">> \o Fmt(schema),
         source |-> [type |-> s_file,
                     file_path |-> IF file_path.present THEN file_path.text ELSE <<>>,
                     sct_path |-> IF sct_path.present THEN sct_path.text ELSE <<>>,
                     format |-> file_format(file_path),
                     column_separator |-> IF col_sep.present THEN col_sep.text ELSE s_comma,
                     row_separator |-> IF row_sep.present THEN row_sep.text ELSE s_backslash_n,
                     null_indicator |-> IF null_ind.present THEN null_ind.text ELSE s_NULL],
         target |-> target_def(id),
         columns |-> columns(table_elem),
         metadata |-> [keep_data |-> keep_data_value(keep_data),
                       original_source |-> s_master_xml,
                       migration_date |-> s_migration_date]]

\* parse_table raises when the conversion of any visited column raises
table_raises(table_elem) ==
    LET cols == column_elems(table_elem)
    IN  \E k \in 1..Len(cols) : column_raises(cols[k])

\* outcome of a call parse_table(table_elem)
parse_table(table_elem) ==
    IF table_raises(table_elem)
    THEN [exc |-> "ValueError"]
    ELSE [exc |-> "none", ret |-> table_def(table_elem)]

(***************************************************************************)
(* ArchiveFlowOrchestrator.convert_to_parquet                              *)
(***************************************************************************)
\* _get_pandas_dtypes: a dict from column name to pandas dtype; a later
\* column of the same name overwrites an earlier one
pandas_dtype(col) ==
    LET col_type == Upper(col.type)
    IN  IF col_type \in {s_INT, s_INTEGER, s_SMALLINT} THEN "Int64"
        ELSE IF col_type \in {s_FLOAT, s_DOUBLE, s_REAL} THEN "float64"
        ELSE IF col_type = s_DECIMAL THEN "float64"
        ELSE "object"

get_pandas_dtypes(cols) ==
    [n \in {cols[k].name : k \in 1..Len(cols)} |->
        LET last == CHOOSE k \in 1..Len(cols) :
                        /\ cols[k].name = n
                        /\ \A m \in (k + 1)..Len(cols) : cols[m].name # n
        IN  pandas_dtype(cols[last])]

\* variant of row_sep_arg: only the separator that is exactly backslash-n
\* is converted
row_sep_arg_whole(row_separator) ==
    IF row_separator = s_backslash_n THEN s_linefeed ELSE row_separator

\* the row separator handed to the reader as lineterminator
row_sep_arg(row_separator) == Replace(row_separator, s_backslash_n, s_linefeed)

\* line 156 calls .replace on the stored separator, which is None when the
\* ROW_SEPARATOR element was empty
convert_raises_early(asset) == asset.source.row_separator = None

\* the keyword arguments of pd.read_csv
read_csv_args(asset) ==
    LET source == asset.source
        base == [sep |-> source.column_separator,
                 lineterminator |-> row_sep_arg(source.row_separator),
                 na_values |-> <<source.null_indicator>>,
                 names |-> [k \in 1..Len(asset.columns) |-> asset.columns[k].name]]
    IN  IF source.format \in {s_csv, s_delimited}
        THEN base @@ [dtype |-> get_pandas_dtypes(asset.columns)]
        ELSE base

(***************************************************************************)
(* Inputs.                                                                 *)
(***************************************************************************)
\* all sequences over S of length at most n
RECURSIVE SeqsUpTo(_, _)
SeqsUpTo(S, n) ==
    IF n = 0 THEN {<<>>}
    ELSE LET shorter == SeqsUpTo(S, n - 1)
         IN  shorter \cup {Append(q, x) : q \in shorter, x \in S}

Capitalised(s) == <<Head(s)>> \o Lower(Tail(s))

\* type tokens: every key of the table in three letter cases, and tokens
\* outside the table
OtherTokens == {<<>>,
               <<"S", "T", "R", "I", "N", "G">>,
               <<"N", "U", "M", "B", "E", "R">>,
               <<" ", "I", "N", "T">>,
               <<"I", "N", "T", " ">>,
               <<"V", "A", "R", "C", "H", "A", "R", "2">>,
               <<"D", "E", "C", "I", "M", "A", "L", "(", "1", "0", ")">>,
               <<"W">>}
TypeTokens ==
    LET keys == DOMAIN type_mapping(0, 0)
    IN  keys \cup {Lower(k) : k \in keys} \cup {Capitalised(k) : k \in keys} \cup OtherTokens
Precisions == 0..MaxPrecision \cup {100, 255}
Scales == 0..MaxScale

\* COLUMN elements: each family varies one child of a base column
IntTexts == {<<"0">>,
            <<"2">>,
            <<"1", "0">>,
            <<"1", "0", "0">>,
            <<"0", "0", "7">>,
            <<"-", "3">>,
            <<"+", "4">>,
            <<" ", "1", "2", " ">>,
            <<"1", "_", "0">>,
            <<"a", "b", "c">>,
            <<"1", ".", "5">>,
            <<"1", "2", "a">>,
            <<"-">>,
            <<"_", "1">>}
NullableTexts == {<<"0">>,
                 <<"1">>,
                 <<"Y">>,
                 <<"t", "r", "u", "e">>,
                 <<"2">>,
                 <<" ">>,
                 <<"0", "1">>,
                 <<"0", "0">>}
ColumnTypeTexts == {<<"w", "c", "h", "a", "r">>,
                   <<"W", "V", "A", "R", "C", "H", "A", "R">>,
                   <<"W", "c", "h", "a", "r">>,
                   <<"d", "e", "c", "i", "m", "a", "l">>,
                   <<"C", "H", "A", "R">>,
                   <<"c", "l", "o", "b">>,
                   <<"X", "Y", "Z">>}

Column(tag, name, type, precision, scale, nullable_elem) ==
    [tag |-> tag, NAME |-> name, TYPE |-> type, PRECISION |-> precision,
     SCALE |-> scale, NULLABLE |-> nullable_elem]

OptElems(texts) == {NoElem, Elem(None)} \cup {Elem(t) : t \in texts}

ColumnElems ==
    {Column("COLUMN", <<"I", "D">>, Elem(s_INT), NoElem, NoElem, n) : n \in OptElems(NullableTexts)}
    \cup {Column("COLUMN", <<"N", "A", "M", "E">>, t, Elem(<<"1", "0">>), Elem(<<"2">>), NoElem) : t \in OptElems(ColumnTypeTexts)}
    \cup {Column("COLUMN", <<"N", "A", "M", "E">>, Elem(s_VARCHAR), p, NoElem, Elem(s_1)) : p \in OptElems(IntTexts)}
    \cup {Column("COLUMN", <<"A", "M", "T">>, Elem(s_DECIMAL), Elem(<<"1", "0">>), sc, Elem(s_0)) : sc \in OptElems(IntTexts)}
    \cup {Column(tag, n, Elem(s_DATE), NoElem, NoElem, NoElem) :
            tag \in {"COLUMN", "column", "INDEX"}, n \in {None, <<>>, <<"D">>}}
    \cup {Column("COLUMN", n, t, p, sc, nl) :
            n \in {None, <<"I", "D">>}, t \in {NoElem, Elem(s_WCHAR)},
            p \in {NoElem, Elem(<<"1", "0">>)}, sc \in {NoElem, Elem(<<"2">>)},
            nl \in {NoElem, Elem(s_0)}}

\* the children of the COLUMNS containers with several children: columns
\* of the same name, a column whose PRECISION is not a number, and a child
\* that is no COLUMN
ListedColumns ==
    {Column("COLUMN", <<"I", "D">>, Elem(s_INT), NoElem, NoElem, Elem(s_0)),
     Column("COLUMN", <<"N", "A", "M", "E">>, Elem(s_VARCHAR), Elem(<<"1", "0", "0">>), NoElem, Elem(s_1)),
     Column("COLUMN", <<"N", "A", "M", "E">>, Elem(s_WCHAR), Elem(<<"1", "0">>), NoElem, NoElem),
     Column("COLUMN", <<"A", "M", "T">>, Elem(s_DECIMAL), Elem(<<"1", "0">>), Elem(<<"2">>), NoElem),
     Column("COLUMN", <<"B", "A", "D">>, Elem(s_DECIMAL), Elem(<<"a", "b", "c">>), Elem(<<"2">>), NoElem),
     Column("INDEX", <<"I", "X">>, NoElem, NoElem, NoElem, NoElem)}

\* TABLE elements: each family varies one part of a base table
Table(tag, name, database, schema, keep_data, col_sep, row_sep, null_ind, file_path, sct_path, columns_elem) ==
    [tag |-> tag, NAME |-> name, DATABASE |-> database, SCHEMA |-> schema,
     KEEP_DATA |-> keep_data, COLUMN_SEPARATOR |-> col_sep,
     ROW_SEPARATOR |-> row_sep, NULL_INDICATOR |-> null_ind,
     FILE_PATH |-> file_path, SCT_PATH |-> sct_path, COLUMNS |-> columns_elem]

Container(children) == [present |-> TRUE, children |-> children]
NoContainer == [present |-> FALSE, children |-> <<>>]

n_TAB1 == <<"T", "A", "B", "1">>
n_DB1 == <<"D", "B", "1">>
n_Schema1 == <<"S", "c", "h", "e", "m", "a", "1">>
p_tab1_txt == <<"d", "a", "t", "a", "/", "t", "a", "b", "1", ".", "t", "x", "t">>

NameAttrs == {None, <<>>, n_TAB1}
DatabaseAttrs == {None, <<>>, n_DB1}
SchemaAttrs == {None, <<>>, n_Schema1}
PathTexts == {<<"a", ".", "t", "x", "t">>,
             <<"A", ".", "T", "X", "T">>,
             <<"a", ".", "T", "x", "t">>,
             <<"a", ".", "b", "c", "p">>,
             <<"a", ".", "B", "C", "P">>,
             <<"a", ".", "c", "s", "v">>,
             <<"a">>,
             <<"t", "x", "t">>,
             <<".", "t", "x", "t">>,
             <<".", "b", "c", "p">>,
             <<"a", ".", "t", "x", "t", ".", "g", "z">>,
             <<"a", ".", "b", "c", "p", ".", "t", "x", "t">>,
             <<"a", ".", "t", "x", "t", ".", "b", "c", "p">>,
             <<"a", ".", "t", "x", "t", " ">>,
             <<"a", "t", "x", "t">>,
             <<"a", ".", "t", "x">>}
SepChars == {"\\", "n", "\n", "|"}
RowSepTexts == SeqsUpTo(SepChars, MaxSepLen) \ {<<>>}
KeepDataTexts == {<<"0">>,
                 <<"1">>,
                 <<"Y">>,
                 <<"t", "r", "u", "e">>,
                 <<"2">>,
                 <<" ">>}

BaseColumns == <<Column("COLUMN", <<"I", "D">>, Elem(s_INT), NoElem, NoElem, Elem(s_0))>>

TableElems ==
    {Table("TABLE", n, d, sc, NoElem, NoElem, NoElem, NoElem, Elem(p_tab1_txt), NoElem,
           Container(BaseColumns)) :
        n \in NameAttrs, d \in DatabaseAttrs, sc \in SchemaAttrs}
    \cup {Table("TABLE", n_TAB1, n_DB1, n_Schema1, NoElem, NoElem, NoElem, NoElem, f, f,
                Container(BaseColumns)) : f \in OptElems(PathTexts)}
    \cup {Table("TABLE", n_TAB1, n_DB1, n_Schema1, NoElem, NoElem, r, NoElem,
                Elem(p_tab1_txt), NoElem, Container(BaseColumns)) : r \in OptElems(RowSepTexts)}
    \cup {Table("TABLE", n_TAB1, n_DB1, n_Schema1, k, c, NoElem, c, NoElem, NoElem,
                NoContainer) : k \in OptElems(KeepDataTexts), c \in OptElems({<<"|">>})}
    \cup {Table("TABLE", n_TAB1, n_DB1, n_Schema1, k, c, r, ni, f, sp, cols) :
            k \in {NoElem, Elem(s_0)}, c \in {NoElem, Elem(<<";">>)},
            r \in {NoElem, Elem(<<"|">>)}, ni \in {NoElem, Elem(<<"N", "A">>)},
            f \in {NoElem, Elem(p_tab1_txt)}, sp \in {NoElem, Elem(<<"d", "a", "t", "a", "/", "t", "a", "b", "1", ".", "s", "c", "t">>)},
            cols \in {NoContainer, Container(BaseColumns)}}
    \cup {Table("TABLE", n_TAB1, n_DB1, n_Schema1, NoElem, NoElem, NoElem, NoElem,
                Elem(p_tab1_txt), NoElem, Container(<<c>>)) : c \in ColumnElems}
    \cup {Table("TABLE", n_TAB1, n_DB1, n_Schema1, NoElem, NoElem, NoElem, NoElem,
                Elem(p_tab1_txt), NoElem, Container(cs)) : cs \in SeqsUpTo(ListedColumns, MaxCols)}

(***************************************************************************)
(* Inputs: documents, source-file mappings, files on disk.                 *)
(***************************************************************************)
\* children of the first TABLES container: two tables of the same
\* (database, schema, name), a table without DATABASE whose ROW_SEPARATOR
\* is empty, a table with a PRECISION that is no number, a child that is
\* no TABLE
DocTables ==
    {Table("TABLE", n_TAB1, n_DB1, n_Schema1, Elem(s_1), NoElem, NoElem, NoElem,
           Elem(p_tab1_txt), NoElem,
           Container(<<Column("COLUMN", <<"I", "D">>, Elem(s_INT), NoElem, NoElem, Elem(s_0)),
                       Column("COLUMN", <<"N", "A", "M", "E">>, Elem(s_VARCHAR), Elem(<<"1", "0", "0">>), NoElem, Elem(s_1))>>)),
     Table("TABLE", n_TAB1, n_DB1, n_Schema1, NoElem, NoElem, NoElem, NoElem,
           NoElem, NoElem, NoContainer),
     Table("TABLE", n_TAB1, None, n_Schema1, Elem(s_0), Elem(<<"|">>), Elem(None), NoElem,
           Elem(<<"t", "2", ".", "B", "C", "P">>), NoElem,
           Container(<<Column("COLUMN", <<"D">>, Elem(s_DATE), NoElem, NoElem, NoElem)>>)),
     Table("TABLE", <<"T", "A", "B", "3">>, n_DB1, n_Schema1, NoElem, NoElem, NoElem, NoElem,
           NoElem, NoElem,
           Container(<<Column("COLUMN", <<"I", "D">>, Elem(s_INT), NoElem, NoElem, Elem(s_0)),
                       Column("COLUMN", <<"A", "M", "T">>, Elem(s_DECIMAL), Elem(<<"a", "b", "c">>), NoElem, NoElem)>>)),
     Table("VIEW", <<"V", "1">>, n_DB1, n_Schema1, NoElem, NoElem, NoElem, NoElem,
           NoElem, NoElem, NoContainer)}

\* children of the first GLOBAL_PARAM container
Param(tag, text) == [tag |-> tag, text |-> text]
DocParams ==
    {Param(<<"F", "o", "o">>, s_1), Param(<<"B", "a", "r", "B", "a", "z">>, <<"x">>), Param(<<"f", "o", "o">>, <<"2">>), Param(<<"F", "O", "O">>, None)}

\* the elements that precede GLOBAL_PARAM and TABLES in the document, two
\* levels deep: JOB_TYPE with and without text, at the top and nested
Node(tag, text, children) == [tag |-> tag, text |-> text, children |-> children]
DocElems ==
    {Node("JOB_TYPE", <<"A", "R", "C", "H", "I", "V", "E">>, <<>>),
     Node("JOB_TYPE", <<"R", "E", "S", "T", "O", "R", "E">>, <<>>),
     Node("JOB_TYPE", None, <<>>),
     Node("HEADER", None, <<>>),
     Node("HEADER", None, <<Node("JOB_TYPE", <<"N", "E", "S", "T", "E", "D">>, <<>>)>>),
     Node("HEADER", None, <<Node("JOB_TYPE", None, <<>>)>>)}

Docs ==
    {[elems |-> <<>>, global_param |-> NoContainer, tables |-> t] :
        t \in {NoContainer} \cup {Container(c) : c \in SeqsUpTo(DocTables, MaxTables)}}
    \cup {[elems |-> <<>>, global_param |-> Container(c), tables |-> NoContainer] :
            c \in SeqsUpTo(DocParams, MaxParams)}
    \cup {[elems |-> e, global_param |-> NoContainer, tables |-> NoContainer] :
            e \in SeqsUpTo(DocElems, MaxElems)}

\* source files named by the mapping, and the ones that exist
f_present == <<"/", "d", "a", "t", "a", "/", "t", "a", "b", "1", ".", "c", "s", "v">>
f_missing == <<"/", "d", "a", "t", "a", "/", "g", "o", "n", "e", ".", "c", "s", "v">>
FilesOnDisk == {f_present}
PathExists(path) == path \in FilesOnDisk

\* dicts are functions; {} is the function of empty domain
EmptyDict == [k \in {} |-> None]
DictSet(d, key, value) ==
    [k \in DOMAIN d \cup {key} |-> IF k = key THEN value ELSE d[k]]

\* the mappings a caller may pass for a document: any of its tables' ids
\* may be left out, or be mapped to '', to a missing or to an existing file
DocAssetIds(d) ==
    {asset_id(d.tables.children[k].DATABASE, d.tables.children[k].SCHEMA,
              d.tables.children[k].NAME) : k \in 1..Len(d.tables.children)}
SourceFileMaps(d) ==
    UNION {[ids -> {<<>>, f_present, f_missing}] : ids \in SUBSET DocAssetIds(d)}

(***************************************************************************)
(* MasterXMLParser.get_job_type                                            *)
(***************************************************************************)
\* variant of iter_elems: the elements level by level
RECURSIVE children_of(_)
children_of(nodes) ==
    IF nodes = <<>> THEN <<>> ELSE Head(nodes).children \o children_of(Tail(nodes))

RECURSIVE iter_level_order(_)
iter_level_order(nodes) ==
    IF nodes = <<>> THEN <<>> ELSE nodes \o iter_level_order(children_of(nodes))

\* the elements below the root in document order, which is the order in
\* which find('.//TAG') looks at them
RECURSIVE iter_elems(_)
iter_elems(nodes) ==
    IF nodes = <<>> THEN <<>>
    ELSE <<Head(nodes)>> \o iter_elems(Head(nodes).children) \o iter_elems(Tail(nodes))

\* root.find('.//JOB_TYPE')
find_job_type(root) ==
    LET found == FindAll(iter_elems(root.elems), "JOB_TYPE")
    IN  IF found = <<>> THEN NoElem ELSE Elem(found[1].text)

get_job_type(root) ==
    LET job_type == find_job_type(root)
    IN  IF job_type.present /\ Truthy(job_type.text) THEN job_type.text ELSE s_UNKNOWN

(***************************************************************************)
(* MasterXMLParser.get_global_params                                       *)
(***************************************************************************)
\* variant of params_loop: the first child of a tag keeps its key
RECURSIVE params_loop_first(_, _)
params_loop_first(children, acc) ==
    IF children = <<>> THEN acc
    ELSE LET child == Head(children)
             key == Lower(child.tag)
         IN  params_loop_first(Tail(children),
                               IF key \in DOMAIN acc THEN acc ELSE DictSet(acc, key, child.text))

RECURSIVE params_loop(_, _)
params_loop(children, acc) ==
    IF children = <<>> THEN acc
    ELSE LET child == Head(children)
         IN  params_loop(Tail(children), DictSet(acc, Lower(child.tag), child.text))

get_global_params(root) ==
    LET global_param == root.global_param
    IN  IF ~global_param.present THEN EmptyDict
        ELSE params_loop(global_param.children, EmptyDict)

(***************************************************************************)
(* MasterXMLParser.parse_all_tables: the TABLE children the loop visits    *)
(***************************************************************************)
\* variant of table_elems: a table whose (database, schema, name) was seen
\* before is left out
table_elems_unique(root) ==
    LET all == IF root.tables.present THEN FindAll(root.tables.children, "TABLE") ELSE <<>>
        id(e) == asset_id(e.DATABASE, e.SCHEMA, e.NAME)
        first == SelectSeq([k \in 1..Len(all) |-> k],
                           LAMBDA k : \A m \in 1..(k - 1) : id(all[m]) # id(all[k]))
    IN  [k \in 1..Len(first) |-> all[first[k]]]

table_elems(root) ==
    IF root.tables.present THEN FindAll(root.tables.children, "TABLE") ELSE <<>>

(***************************************************************************)
(* Direct calls of the parser's and the orchestrator's methods: one call    *)
(* per run, and convert_to_parquet on the asset a parse_table call         *)
(* returned.                                                               *)
(***************************************************************************)
NoCall == [op |-> "none"]
NoDict == [called |-> FALSE]
EmptyDoc == [elems |-> <<>>, global_param |-> NoContainer, tables |-> NoContainer]

\* the variables of the archive run before run_archive_flow is entered
FlowIdle ==
    /\ pc = "idle"
    /\ params = NoDict
    /\ tables = <<>>
    /\ ti = 0
    /\ assets = <<>>
    /\ source_files_map = <<>>
    /\ ai = 0
    /\ results = <<>>
    /\ successful = 0
    /\ failed = 0
    /\ steps = <<>>
    /\ summary = NoDict

flowVars == <<doc, pc, params, tables, ti, assets, source_files_map, ai,
              results, successful, failed, steps, summary>>

InitCalls ==
    /\ doc = EmptyDoc
    /\ call = NoCall
    /\ FlowIdle

\* parser.map_data_type(original_type, precision, scale)
MapDataTypeCall ==
    \E t \in TypeTokens, p \in Precisions, sc \in Scales :
        /\ call = NoCall
        /\ call' = [op |-> "map_data_type", original_type |-> t, precision |-> p,
                    scale |-> sc, exc |-> "none", ret |-> map_data_type(t, p, sc)]
        /\ UNCHANGED flowVars

\* parser.parse_table(table_elem)
ParseTableCall ==
    \E e \in TableElems :
        /\ call = NoCall
        /\ call' = [op |-> "parse_table", table_elem |-> e] @@ parse_table(e)
        /\ UNCHANGED flowVars

\* orchestrator.convert_to_parquet(source_file, asset, output_path) on the
\* asset just parsed; the reader and the Parquet writer are collaborators
\* that either complete or raise
ConvertCall ==
    /\ call.op = "parse_table"
    /\ call.exc = "none"
    /\ LET asset == call.ret
       IN  IF convert_raises_early(asset)
           THEN call' = [op |-> "convert_to_parquet", asset |-> asset,
                         exc |-> "AttributeError"]
           ELSE \E outcome \in {"none", "Exception"} :
                    call' = [op |-> "convert_to_parquet", asset |-> asset,
                             read_csv |-> read_csv_args(asset), exc |-> outcome]
    /\ UNCHANGED flowVars

NextCalls == MapDataTypeCall \/ ParseTableCall \/ ConvertCall

SpecCalls == InitCalls /\ [][NextCalls]_vars

(***************************************************************************)
(* The archive run: run_archive_flow, with parse_all_tables and            *)
(* archive_asset inlined step by step.                                     *)
(***************************************************************************)
Init ==
    /\ doc \in Docs
    /\ call = NoCall
    /\ FlowIdle

\* parser.get_job_type()
GetJobType ==
    /\ pc = "idle"
    /\ call = NoCall
    /\ call' = [op |-> "get_job_type", exc |-> "none", ret |-> get_job_type(doc)]
    /\ UNCHANGED flowVars

\* parser.get_global_params()
GetGlobalParams ==
    /\ pc = "idle"
    /\ params = NoDict
    /\ params' = [called |-> TRUE, ret |-> get_global_params(doc)]
    /\ UNCHANGED <<doc, pc, call, tables, ti, assets, source_files_map, ai,
                   results, successful, failed, steps, summary>>

\* run_archive_flow(source_files_map) is entered and calls parse_all_tables
RunArchiveFlow ==
    /\ pc = "idle"
    /\ \E m \in SourceFileMaps(doc) : source_files_map' = m
    /\ pc' = "parse_all_tables"
    /\ tables' = <<>>
    /\ ti' = 1
    /\ UNCHANGED <<doc, call, params, assets, ai, results, successful, failed,
                   steps, summary>>

\* variant of ParseNextTable: a table that fails to parse is logged and left
\* out, and the loop goes on
ParseNextTable_skip ==
    /\ pc = "parse_all_tables"
    /\ ti <= Len(table_elems(doc))
    /\ LET table_def_ == parse_table(table_elems(doc)[ti])
       IN  /\ tables' = IF table_def_.exc # "none" THEN tables
                        ELSE Append(tables, table_def_.ret)
           /\ ti' = ti + 1
           /\ pc' = pc
    /\ UNCHANGED <<doc, call, params, assets, source_files_map, ai, results,
                   successful, failed, steps, summary>>

\* one iteration of the loop of parse_all_tables; a ValueError of parse_table
\* is caught neither there nor in run_archive_flow nor in main
ParseNextTable ==
    /\ pc = "parse_all_tables"
    /\ ti <= Len(table_elems(doc))
    /\ LET table_def_ == parse_table(table_elems(doc)[ti])
       IN  IF table_def_.exc # "none"
           THEN /\ pc' = "raised"
                /\ tables' = <<>>
                /\ ti' = 0
           ELSE /\ tables' = Append(tables, table_def_.ret)
                /\ ti' = ti + 1
                /\ pc' = pc
    /\ UNCHANGED <<doc, call, params, assets, source_files_map, ai, results,
                   successful, failed, steps, summary>>

\* parse_all_tables returns; run_archive_flow initialises its locals
ParseReturn ==
    /\ pc = "parse_all_tables"
    /\ ti > Len(table_elems(doc))
    /\ assets' = tables
    /\ tables' = <<>>
    /\ ti' = 0
    /\ results' = <<>>
    /\ successful' = 0
    /\ failed' = 0
    /\ ai' = 1
    /\ pc' = "loop"
    /\ UNCHANGED <<doc, call, params, source_files_map, steps, summary>>

\* source_files_map.get(asset_id)
source_file_of(asset) ==
    DictGet(source_files_map, asset.asset_id, None)

Skipped(asset, reason) ==
    [asset_id |-> asset.asset_id, status |-> "skipped", reason |-> reason]
Failed(asset) ==
    [asset_id |-> asset.asset_id, status |-> "failed"]
Succeeded(asset) ==
    [asset_id |-> asset.asset_id, status |-> "success"]

\* `if not source_file`: no entry, or an empty one
SkipNoSourceFile ==
    /\ pc = "loop"
    /\ ai <= Len(assets)
    /\ ~Truthy(source_file_of(assets[ai]))
    /\ results' = Append(results, Skipped(assets[ai], "No source file provided"))
    /\ ai' = ai + 1
    /\ UNCHANGED <<doc, pc, call, params, tables, ti, assets, source_files_map,
                   successful, failed, steps, summary>>

\* `if not Path(source_file).exists()`
SkipFileNotFound ==
    /\ pc = "loop"
    /\ ai <= Len(assets)
    /\ Truthy(source_file_of(assets[ai]))
    /\ ~PathExists(source_file_of(assets[ai]))
    /\ results' = Append(results, Skipped(assets[ai], "File not found"))
    /\ ai' = ai + 1
    /\ UNCHANGED <<doc, pc, call, params, tables, ti, assets, source_files_map,
                   successful, failed, steps, summary>>

\* variants of ArchiveFailed: the asset is not counted as failed; the error
\* leaves archive_asset and run_archive_flow
ArchiveFailed_uncounted ==
    /\ results' = Append(results, Failed(assets[ai]))
    /\ ai' = ai + 1
    /\ pc' = "loop"
    /\ UNCHANGED <<successful, failed>>

ArchiveFailed_propagates ==
    /\ pc' = "raised"
    /\ UNCHANGED <<results, successful, failed, ai>>

\* archive_asset returned `failed`: the except branch, then lines 430-435
ArchiveFailed ==
    /\ results' = Append(results, Failed(assets[ai]))
    /\ failed' = failed + 1
    /\ ai' = ai + 1
    /\ pc' = "loop"
    /\ UNCHANGED successful

\* variant of ArchiveAsset: the source file is not looked for on disk
ArchiveAsset_unchecked ==
    /\ pc = "loop"
    /\ ai <= Len(assets)
    /\ Truthy(source_file_of(assets[ai]))
    /\ \/ /\ pc' = "convert"
          /\ UNCHANGED <<results, successful, failed, ai>>
       \/ ArchiveFailed
    /\ UNCHANGED <<doc, call, params, tables, ti, assets, source_files_map,
                   steps, summary>>

\* archive_asset(asset, source_file) is entered: temp_dir.mkdir
ArchiveAsset ==
    /\ pc = "loop"
    /\ ai <= Len(assets)
    /\ Truthy(source_file_of(assets[ai]))
    /\ PathExists(source_file_of(assets[ai]))
    /\ \/ /\ pc' = "convert"
          /\ UNCHANGED <<results, successful, failed, ai>>
       \/ ArchiveFailed
    /\ UNCHANGED <<doc, call, params, tables, ti, assets, source_files_map,
                   steps, summary>>

\* a collaborator step of the asset in hand ran and completed or raised
Logged(step, outcome) == steps' = Append(steps, <<ai, step, outcome>>)

\* variant of ConvertToParquet: a failed conversion is logged and the flow
\* goes on to create the table
ConvertToParquet_swallow ==
    /\ pc = "convert"
    /\ \/ /\ ~convert_raises_early(assets[ai])
          /\ Logged("convert", "ok")
       \/ Logged("convert", "raised")
    /\ pc' = "create"
    /\ UNCHANGED <<results, successful, failed, ai>>
    /\ UNCHANGED <<doc, call, params, tables, ti, assets, source_files_map, summary>>

\* Step 1: convert_to_parquet
ConvertToParquet ==
    /\ pc = "convert"
    /\ \/ /\ ~convert_raises_early(assets[ai])
          /\ Logged("convert", "ok")
          /\ pc' = "create"
          /\ UNCHANGED <<results, successful, failed, ai>>
       \/ /\ Logged("convert", "raised")
          /\ ArchiveFailed
    /\ UNCHANGED <<doc, call, params, tables, ti, assets, source_files_map, summary>>

\* Step 2: create_table_if_not_exists
CreateTable ==
    /\ pc = "create"
    /\ \/ /\ Logged("create", "ok")
          /\ pc' = "load"
          /\ UNCHANGED <<results, successful, failed, ai>>
       \/ /\ Logged("create", "raised")
          /\ ArchiveFailed
    /\ UNCHANGED <<doc, call, params, tables, ti, assets, source_files_map, summary>>

\* Step 3: load_data_to_table
LoadData ==
    /\ pc = "load"
    /\ \/ /\ Logged("load", "ok")
          /\ pc' = "cleanup"
          /\ UNCHANGED <<results, successful, failed, ai>>
       \/ /\ Logged("load", "raised")
          /\ ArchiveFailed
    /\ UNCHANGED <<doc, call, params, tables, ti, assets, source_files_map, summary>>

\* Step 4: parquet_file.unlink(), then the result is returned
Cleanup ==
    /\ pc = "cleanup"
    /\ \/ /\ results' = Append(results, Succeeded(assets[ai]))
          /\ successful' = successful + 1
          /\ ai' = ai + 1
          /\ pc' = "loop"
          /\ UNCHANGED failed
       \/ ArchiveFailed
    /\ UNCHANGED <<doc, call, params, tables, ti, assets, source_files_map,
                   steps, summary>>

\* the loop is over: the summary is built and returned
ReturnSummary ==
    /\ pc = "loop"
    /\ ai > Len(assets)
    /\ summary' = [called |-> TRUE,
                   ret |-> [total_assets |-> Len(assets),
                            successful |-> successful,
                            failed |-> failed,
                            skipped |-> Len(assets) - successful - failed,
                            results |-> results]]
    /\ pc' = "done"
    /\ UNCHANGED <<doc, call, params, tables, ti, assets, source_files_map, ai,
                   results, successful, failed, steps>>

Next ==
    \/ GetJobType
    \/ GetGlobalParams
    \/ RunArchiveFlow
    \/ ParseNextTable
    \/ ParseReturn
    \/ SkipNoSourceFile
    \/ SkipFileNotFound
    \/ ArchiveAsset
    \/ ConvertToParquet
    \/ CreateTable
    \/ LoadData
    \/ Cleanup
    \/ ReturnSummary

Spec == Init /\ [][Next]_vars

\* the steps of the loop over the assets and the return of the summary
FlowStep ==
    \/ SkipNoSourceFile
    \/ SkipFileNotFound
    \/ ArchiveAsset
    \/ ConvertToParquet
    \/ CreateTable
    \/ LoadData
    \/ Cleanup
    \/ ReturnSummary

\* run_archive_flow is a sequential loop: while it has a step to take, it
\* takes one
SpecLive == Spec /\ WF_vars(FlowStep)

(***************************************************************************)
(* Properties.                                                             *)
(***************************************************************************)
\* the k-th smallest element of a finite set of numbers
Nth(K, k) == CHOOSE j \in K : Cardinality({m \in K : m < j}) = k - 1

\* indices of the children with a given tag, and the children in that order
Tagged(children, tag) == {j \in 1..Len(children) : children[j].tag = tag}

Paren(name, args) == name \o <<"(">> \o args \o <<")">>

MapCalled == call.op = "map_data_type"
TableParsed == call.op = "parse_table" /\ call.exc = "none"
Converted == call.op = "convert_to_parquet" /\ call.exc # "AttributeError"

\* C1: map_data_type returns, for the upper-cased type token, the target
\* type of the lookup table: DECIMAL(p,s) or DECIMAL(p), VARCHAR(p), CHAR(p),
\* INTEGER, the type itself, REAL for FLOAT, VARBINARY for BLOB,
\* VARCHAR(65535) for CLOB.
C1_LookupTable ==
    MapCalled =>
        LET u == Upper(call.original_type)
            p == call.precision
            sc == call.scale
            r == call.ret
        IN  /\ (u = s_DECIMAL /\ sc > 0) => r = Paren(s_DECIMAL, Dec(p) \o <<",">> \o Dec(sc))
            /\ (u = s_DECIMAL /\ sc = 0) => r = Paren(s_DECIMAL, Dec(p))
            /\ u \in {s_VARCHAR, s_WVARCHAR} => r = Paren(s_VARCHAR, Dec(p))
            /\ u \in {s_CHAR, s_WCHAR} => r = Paren(s_CHAR, Dec(p))
            /\ u \in {s_INT, s_INTEGER} => r = s_INTEGER
            /\ u \in {s_SMALLINT, s_BIGINT, s_DOUBLE, s_REAL, s_TIMESTAMP, s_DATE,
                      s_TIME, s_BOOLEAN} => r = u
            /\ u = s_FLOAT => r = s_REAL
            /\ u = s_BLOB => r = s_VARBINARY
            /\ u = s_CLOB => r = <<"V", "A", "R", "C", "H", "A", "R", "(", "6", "5", "5", "3", "5", ")">>

\* map_data_type('decimal', 10, 2) returned DECIMAL(10,2)
C1_Witness ==
    /\ MapCalled
    /\ call.original_type = <<"d", "e", "c", "i", "m", "a", "l">>
    /\ call.precision = 10
    /\ call.scale = 2
    /\ call.ret = <<"D", "E", "C", "I", "M", "A", "L", "(", "1", "0", ",", "2", ")">>

\* the type tokens of the lookup table
C2_TableTokens ==
    {s_DECIMAL, s_VARCHAR, s_WVARCHAR, s_CHAR, s_WCHAR, s_INT, s_INTEGER, s_SMALLINT,
     s_BIGINT, s_FLOAT, s_DOUBLE, s_REAL, s_TIMESTAMP, s_DATE, s_TIME, s_BOOLEAN,
     s_BLOB, s_CLOB}

C2_IsText(x) == x # None /\ x # <<>>

\* C2: map_data_type never raises and returns a non-empty string, which is
\* VARCHAR(255) for every token outside the table; and every column of a
\* parsed asset stores the wxd_type that map_data_type gives for the stored
\* type, precision and scale.
C2_Total ==
    /\ MapCalled =>
        /\ call.exc = "none"
        /\ C2_IsText(call.ret)
        /\ Upper(call.original_type) \notin C2_TableTokens => call.ret = s_VARCHAR_255
    /\ TableParsed =>
        \A k \in 1..Len(call.ret.columns) :
            LET c == call.ret.columns[k]
            IN  /\ C2_IsText(c.wxd_type)
                /\ c.wxd_type = map_data_type(c.type, c.precision, c.scale)
                /\ Upper(c.type) \notin C2_TableTokens => c.wxd_type = s_VARCHAR_255

\* a parsed column of a type outside the table got VARCHAR(255)
C2_Witness ==
    /\ TableParsed
    /\ \E k \in 1..Len(call.ret.columns) :
        /\ call.ret.columns[k].type = <<"X", "Y", "Z">>
        /\ call.ret.columns[k].wxd_type = s_VARCHAR_255

\* C3 as stated: nullable is false exactly when the NULLABLE text is 0.
C3_NullableUnless0 ==
    TableParsed =>
        LET cols == column_elems(call.table_elem)
        IN  \A k \in 1..Len(cols) :
                call.ret.columns[k].nullable
                    = ~(cols[k].NULLABLE.present /\ cols[k].NULLABLE.text = s_0)

\* C3 amended: nullable is true exactly when the NULLABLE child is absent,
\* has no text, or has the text 1; every other text yields false.
C3_NullableOnly1 ==
    TableParsed =>
        LET cols == column_elems(call.table_elem)
        IN  \A k \in 1..Len(cols) :
                call.ret.columns[k].nullable
                    = \/ ~cols[k].NULLABLE.present
                      \/ cols[k].NULLABLE.text \in {None, <<>>}
                      \/ cols[k].NULLABLE.text = s_1

\* a column whose NULLABLE text is Y was parsed as not nullable
C3_Witness ==
    /\ TableParsed
    /\ \E k \in 1..Len(call.ret.columns) :
        /\ column_elems(call.table_elem)[k].NULLABLE = Elem(<<"Y">>)
        /\ call.ret.columns[k].nullable = FALSE

\* a PRECISION or SCALE text that is no number: it has text with a letter
C4_NonNumeric(e) ==
    /\ e.present
    /\ Truthy(e.text)
    /\ \E k \in 1..Len(e.text) : InSeq(e.text[k], Lowers) \/ InSeq(e.text[k], Uppers)

C4_Malformed(d) ==
    /\ d.tables.present
    /\ \E i \in Tagged(d.tables.children, "TABLE") :
        LET t == d.tables.children[i]
        IN  /\ t.COLUMNS.present
            /\ \E j \in Tagged(t.COLUMNS.children, "COLUMN") :
                \/ C4_NonNumeric(t.COLUMNS.children[j].PRECISION)
                \/ C4_NonNumeric(t.COLUMNS.children[j].SCALE)

\* C4: when some column of some table has a PRECISION or SCALE that is no
\* number, parse_all_tables never returns a list: run_archive_flow gets no
\* assets, starts no convert, create-table or load step, and builds no
\* summary; once the error is raised the tables parsed before are gone.
C4_AllOrNothing ==
    /\ C4_Malformed(doc) =>
        /\ pc \in {"idle", "parse_all_tables", "raised"}
        /\ assets = <<>>
        /\ results = <<>>
        /\ steps = <<>>
        /\ summary = NoDict
    /\ pc = "raised" => C4_Malformed(doc) /\ tables = <<>>

\* the run failed at the second table, after the first had been parsed
C4_Witness ==
    /\ pc = "raised"
    /\ Len(table_elems(doc)) = 2
    /\ ~table_raises(table_elems(doc)[1])
    /\ table_raises(table_elems(doc)[2])

C5_Part(attr) == IF attr = None \/ attr = <<>> THEN s_unknown ELSE Lower(attr)

\* C5: asset_id is lower(database) _ lower(schema) _ lower(name), a part
\* being `unknown` when its attribute is absent or empty, whatever else the
\* table holds.
C5_AssetId ==
    TableParsed =>
        /\ call.ret.asset_id = C5_Part(call.table_elem.DATABASE) \o <<"_">>
                               \o C5_Part(call.table_elem.SCHEMA) \o <<"_">>
                               \o C5_Part(call.table_elem.NAME)
        /\ (/\ call.table_elem.DATABASE = n_DB1
            /\ call.table_elem.SCHEMA = n_Schema1
            /\ call.table_elem.NAME = n_TAB1) => call.ret.asset_id = <<"d", "b", "1", "_", "s", "c", "h", "e", "m", "a", "1", "_", "t", "a", "b", "1">>

\* a table with an empty DATABASE got the id unknown_schema1_tab1
C5_Witness ==
    /\ TableParsed
    /\ call.table_elem.DATABASE = <<>>
    /\ call.ret.asset_id = <<"u", "n", "k", "n", "o", "w", "n", "_", "s", "c", "h", "e", "m", "a", "1", "_", "t", "a", "b", "1">>

\* the last n characters of a text, lower-cased
C6_Ext(text, n) ==
    IF Len(text) >= n THEN Lower(SubSeq(text, Len(text) - n + 1, Len(text))) ELSE <<>>

\* C6: source.format is delimited for a FILE_PATH ending in .txt, bcp for
\* one ending in .bcp, in any letter case, and csv otherwise, also without
\* FILE_PATH or without text.
C6_Format ==
    TableParsed =>
        LET f == call.table_elem.FILE_PATH
            hasPath == f.present /\ f.text # None /\ f.text # <<>>
            fmt == call.ret.source.format
        IN  /\ fmt \in {s_csv, s_delimited, s_bcp}
            /\ fmt = s_delimited <=> (hasPath /\ C6_Ext(f.text, 4) = s_dot_txt)
            /\ fmt = s_bcp <=> (hasPath /\ C6_Ext(f.text, 4) = s_dot_bcp)

\* the path A.TXT was parsed as delimited
C6_Witness ==
    /\ TableParsed
    /\ call.table_elem.FILE_PATH = Elem(<<"A", ".", "T", "X", "T">>)
    /\ call.ret.source.format = s_delimited

\* positions where the two characters backslash, n start
C7_Escapes(x) == {k \in 1..(Len(x) - 1) : x[k] = "\\" /\ x[k + 1] = "n"}

\* x with every backslash-n replaced by one line feed
C7_AllReplaced(x) ==
    LET kept == {k \in 1..Len(x) : (k - 1) \notin C7_Escapes(x)}
    IN  [i \in 1..Cardinality(kept) |->
            IF Nth(kept, i) \in C7_Escapes(x) THEN "\n" ELSE x[Nth(kept, i)]]

\* C7 as stated: only the separator that is exactly backslash-n becomes a
\* line feed; every other separator reaches the reader unchanged.
C7_OnlyWholeEscape ==
    Converted =>
        call.read_csv.lineterminator
            = IF call.asset.source.row_separator = s_backslash_n
              THEN s_linefeed
              ELSE call.asset.source.row_separator

\* C7 amended: every occurrence of backslash-n in the separator is replaced
\* by one line feed, so exactly backslash-n yields a line feed and a
\* separator without backslash-n is unchanged; normalizing the result again
\* changes nothing.
C7_EveryEscape ==
    Converted =>
        LET x == call.asset.source.row_separator
            y == call.read_csv.lineterminator
        IN  /\ y = C7_AllReplaced(x)
            /\ x = s_backslash_n => y = s_linefeed
            /\ C7_Escapes(x) = {} => y = x
            /\ row_sep_arg(y) = y

\* the separator |\n (three characters) reached the reader as | and a line feed
C7_Witness ==
    /\ Converted
    /\ call.asset.source.row_separator = <<"|", "\\", "n">>
    /\ call.read_csv.lineterminator = <<"|", "\n">>

\* C8: columns has one entry per COLUMN child of COLUMNS, in document order,
\* nothing sorted, dropped or merged by name; without COLUMNS it is empty.
C8_ColumnsInOrder ==
    TableParsed =>
        LET container == call.table_elem.COLUMNS
            idx == Tagged(container.children, "COLUMN")
            cols == call.ret.columns
        IN  /\ ~container.present => cols = <<>>
            /\ container.present =>
                /\ Len(cols) = Cardinality(idx)
                /\ \A k \in 1..Len(cols) :
                    LET child == container.children[Nth(idx, k)]
                    IN  /\ cols[k].name = (IF child.NAME = None THEN <<>> ELSE child.NAME)
                        /\ child.TYPE.present /\ child.TYPE.text # None
                            => cols[k].type = child.TYPE.text

\* two columns of the same name were parsed in document order, around a
\* child that is no COLUMN
C8_Witness ==
    /\ TableParsed
    /\ Len(call.table_elem.COLUMNS.children) = 3
    /\ call.table_elem.COLUMNS.children[2].tag = "INDEX"
    /\ Len(call.ret.columns) = 2
    /\ call.ret.columns[1].name = call.ret.columns[2].name
    /\ call.ret.columns[1].type = s_WCHAR
    /\ call.ret.columns[2].type = s_VARCHAR

\* the list parse_all_tables has built or returned
C9_Parsed ==
    IF pc = "parse_all_tables" THEN tables
    ELSE IF pc \in {"loop", "convert", "create", "load", "cleanup", "done"} THEN assets
    ELSE <<>>

\* C9: parse_all_tables returns one asset per TABLE child of the first TABLES
\* container, in document order, tables of the same (database, schema, name)
\* included; without TABLES the list is empty.
C9_OneAssetPerTable ==
    LET idx == Tagged(doc.tables.children, "TABLE")
        list == C9_Parsed
    IN  /\ ~doc.tables.present => list = <<>>
        /\ Len(list) <= Cardinality(idx)
        /\ pc \in {"loop", "convert", "create", "load", "cleanup", "done"}
            => Len(list) = Cardinality(idx)
        /\ \A k \in 1..Len(list) :
            LET child == doc.tables.children[Nth(idx, k)]
            IN  /\ list[k].name = child.NAME
                /\ list[k].database = child.DATABASE
                /\ list[k].schema = child.SCHEMA
                /\ list[k].source.file_path
                    = (IF child.FILE_PATH.present THEN child.FILE_PATH.text ELSE <<>>)

\* two tables of the same (database, schema, name) were returned as two
\* different assets of the same asset_id
C9_Witness ==
    /\ pc = "done"
    /\ Len(assets) = 2
    /\ assets[1].asset_id = assets[2].asset_id
    /\ assets[1] # assets[2]

\* C10 as stated: one key per child of GLOBAL_PARAM, the lower-cased tag,
\* with that child's text as its value; every key lower-case; an empty
\* mapping without GLOBAL_PARAM.
C10_OneKeyPerChild ==
    params.called =>
        LET children == doc.global_param.children
            ret == params.ret
        IN  /\ ~doc.global_param.present => ret = EmptyDict
            /\ Cardinality(DOMAIN ret) = Len(children)
            /\ \A k \in 1..Len(children) :
                /\ Lower(children[k].tag) \in DOMAIN ret
                /\ ret[Lower(children[k].tag)] = children[k].text
            /\ \A key \in DOMAIN ret : key = Lower(key)

\* C10 amended: the keys are the lower-cased tags of the children of
\* GLOBAL_PARAM, one key per distinct lower-cased tag, and a key's value is
\* the text of the last child with that lower-cased tag; every key is
\* lower-case; without GLOBAL_PARAM the mapping is empty.
C10_LastChildPerKey ==
    params.called =>
        LET children == doc.global_param.children
            ret == params.ret
        IN  /\ ~doc.global_param.present => ret = EmptyDict
            /\ DOMAIN ret = {Lower(children[k].tag) : k \in 1..Len(children)}
            /\ \A k \in 1..Len(children) :
                (\A m \in (k + 1)..Len(children) :
                    Lower(children[m].tag) # Lower(children[k].tag))
                => ret[Lower(children[k].tag)] = children[k].text
            /\ \A key \in DOMAIN ret : key = Lower(key)

\* the children Foo=1, foo=2 gave the single key foo with the value 2
C10_Witness ==
    /\ params.called
    /\ Len(doc.global_param.children) = 2
    /\ doc.global_param.children[1].text = s_1
    /\ DOMAIN params.ret = {<<"f", "o", "o">>}
    /\ params.ret[<<"f", "o", "o">>] = <<"2">>

\* the first JOB_TYPE of a two-level document: of the first top-level
\* element that is or holds a JOB_TYPE, the element itself or its first
\* JOB_TYPE child
C11_Holds(n) == n.tag = "JOB_TYPE" \/ Tagged(n.children, "JOB_TYPE") # {}
C11_HasJobType(d) == \E k \in 1..Len(d.elems) : C11_Holds(d.elems[k])
C11_FirstJobType(d) ==
    LET k == Nth({j \in 1..Len(d.elems) : C11_Holds(d.elems[j])}, 1)
        n == d.elems[k]
    IN  IF n.tag = "JOB_TYPE" THEN n ELSE n.children[Nth(Tagged(n.children, "JOB_TYPE"), 1)]

JobTypeReturned == call.op = "get_job_type"

\* C11 as stated: get_job_type returns the text of the first JOB_TYPE in
\* document order, UNKNOWN without any JOB_TYPE, and never null or an
\* empty string.
C11_TextOfFirst ==
    JobTypeReturned =>
        /\ C11_HasJobType(doc) => call.ret = C11_FirstJobType(doc).text
        /\ ~C11_HasJobType(doc) => call.ret = s_UNKNOWN
        /\ call.ret # None /\ call.ret # <<>>

\* C11 amended: get_job_type returns the text of the first JOB_TYPE in
\* document order when that element has text, and UNKNOWN when the document
\* has no JOB_TYPE or the first one has no text; never null or an empty
\* string.
C11_TextOrUnknown ==
    JobTypeReturned =>
        /\ (C11_HasJobType(doc) /\ C11_FirstJobType(doc).text \notin {None, <<>>})
            => call.ret = C11_FirstJobType(doc).text
        /\ (C11_HasJobType(doc) /\ C11_FirstJobType(doc).text \in {None, <<>>})
            => call.ret = s_UNKNOWN
        /\ ~C11_HasJobType(doc) => call.ret = s_UNKNOWN
        /\ call.ret # None /\ call.ret # <<>>

\* an empty JOB_TYPE before one with text: UNKNOWN was returned
C11_Witness ==
    /\ JobTypeReturned
    /\ Len(doc.elems) = 2
    /\ doc.elems[1] = Node("JOB_TYPE", None, <<>>)
    /\ doc.elems[2].tag = "JOB_TYPE"
    /\ doc.elems[2].text # None
    /\ call.ret = s_UNKNOWN

\* the str-valued fields of the dict under 'source'
C12_SourceFields ==
    {"type", "file_path", "sct_path", "format", "column_separator", "row_separator",
     "null_indicator"}

\* C12: leaving out optional children never makes parse_table fail, every
\* child left out takes its default, and every source field of the result
\* is a string, never null.
C12_Defaults ==
    call.op = "parse_table" =>
        LET e == call.table_elem
            cols == column_elems(e)
        IN  /\ call.exc # "none" =>
                    \E k \in 1..Len(cols) : cols[k].PRECISION.present \/ cols[k].SCALE.present
            /\ call.exc = "none" =>
                LET src == call.ret.source
                IN  /\ ~e.COLUMN_SEPARATOR.present => src.column_separator = <<",">>
                    /\ ~e.ROW_SEPARATOR.present => src.row_separator = <<"\\", "n">>
                    /\ ~e.NULL_INDICATOR.present => src.null_indicator = <<"N", "U", "L", "L">>
                    /\ ~e.FILE_PATH.present => src.file_path = <<>>
                    /\ ~e.SCT_PATH.present => src.sct_path = <<>>
                    /\ ~e.KEEP_DATA.present => call.ret.metadata.keep_data = TRUE
                    /\ \A k \in 1..Len(cols) :
                        LET c == call.ret.columns[k]
                        IN  /\ cols[k].NAME = None => c.name = <<>>
                            /\ ~cols[k].TYPE.present => c.type = s_VARCHAR
                            /\ ~cols[k].PRECISION.present => c.precision = 0
                            /\ ~cols[k].SCALE.present => c.scale = 0
                            /\ ~cols[k].NULLABLE.present => c.nullable = TRUE
                    /\ \A f \in C12_SourceFields : src[f] # None

\* C13 as stated: keep_data is false exactly when the KEEP_DATA text is 0.
C13_KeepDataUnless0 ==
    TableParsed =>
        call.ret.metadata.keep_data
            = ~(call.table_elem.KEEP_DATA.present /\ call.table_elem.KEEP_DATA.text = s_0)

\* C13 amended: keep_data is true exactly when the KEEP_DATA child is absent
\* or has the text 1; every other text and an empty element yield false.
C13_KeepDataOnly1 ==
    TableParsed =>
        call.ret.metadata.keep_data
            = \/ ~call.table_elem.KEEP_DATA.present
              \/ call.table_elem.KEEP_DATA.text = s_1

\* an empty KEEP_DATA element was parsed as keep_data = false
C13_Witness ==
    /\ TableParsed
    /\ call.table_elem.KEEP_DATA = Elem(None)
    /\ call.ret.metadata.keep_data = FALSE

\* C14: a parsed column has a note exactly when its type, upper-cased, is
\* WVARCHAR or WCHAR; a column with a note keeps its place, its target type
\* and its nullability, and parse_table fails for no other reason than a
\* PRECISION or SCALE text.
C14_Note ==
    call.op = "parse_table" =>
        LET cols == column_elems(call.table_elem)
        IN  /\ call.exc # "none" =>
                    \E k \in 1..Len(cols) :
                        \/ cols[k].PRECISION.present /\ cols[k].PRECISION.text # None
                        \/ cols[k].SCALE.present /\ cols[k].SCALE.text # None
            /\ call.exc = "none" =>
                \A k \in 1..Len(cols) :
                    LET c == call.ret.columns[k]
                        wide == Upper(c.type) \in {s_WVARCHAR, s_WCHAR}
                    IN  /\ ("notes" \in DOMAIN c) <=> wide
                        /\ DOMAIN c \ {"notes"}
                            = {"name", "type", "precision", "scale", "nullable", "wxd_type"}
                        /\ c.name = (IF cols[k].NAME = None THEN <<>> ELSE cols[k].NAME)
                        /\ Upper(c.type) = s_WVARCHAR
                            => c.wxd_type = Paren(s_VARCHAR, Dec(c.precision))
                        /\ Upper(c.type) = s_WCHAR
                            => c.wxd_type = Paren(s_CHAR, Dec(c.precision))
                        /\ c.nullable = \/ ~cols[k].NULLABLE.present
                                        \/ cols[k].NULLABLE.text \in {None, <<>>}
                                        \/ cols[k].NULLABLE.text = s_1

\* a column of type wchar got a note and the type CHAR(10)
C14_Witness ==
    /\ TableParsed
    /\ \E k \in 1..Len(call.ret.columns) :
        /\ call.ret.columns[k].type = <<"w", "c", "h", "a", "r">>
        /\ "notes" \in DOMAIN call.ret.columns[k]
        /\ call.ret.columns[k].wxd_type = <<"C", "H", "A", "R", "(", "1", "0", ")">>

\* C15: every asset has target.table = asset_id, target.format = parquet
\* and the same target.catalog and target.schema, whatever the table's
\* attributes, file format and legacy schema.
C15_Target ==
    TableParsed =>
        /\ call.ret.target.table = call.ret.asset_id
        /\ call.ret.target.format = <<"p", "a", "r", "q", "u", "e", "t">>
        /\ call.ret.target.catalog = <<"i", "c", "e", "b", "e", "r", "g", "_", "d", "a", "t", "a">>
        /\ call.ret.target.schema = <<"a", "r", "c", "h", "i", "v", "e", "_", "d", "a", "t", "a">>
        /\ DOMAIN call.ret.target = {"catalog", "schema", "table", "format"}

\* a table whose source format is bcp has the parquet target of its
\* asset_id
C15_Witness ==
    /\ TableParsed
    /\ call.ret.source.format = s_bcp
    /\ call.ret.target.format = s_parquet
    /\ call.ret.target.table = <<"d", "b", "1", "_", "s", "c", "h", "e", "m", "a", "1", "_", "t", "a", "b", "1">>

\* the <<step, outcome>> entries logged for the asset at index i, in the
\* order they were logged
StepsOf(i) ==
    LET OfAsset(e) == e[1] = i
        mine == SelectSeq(steps, OfAsset)
    IN  [k \in 1..Len(mine) |-> <<mine[k][2], mine[k][3]>>]

StepOrder == <<"convert", "create", "load">>
ArchivePcs == {"convert", "create", "load", "cleanup"}

\* C16: for each asset the steps run in the order convert, create, load; a
\* step is started only when the step before it completed without error,
\* and a result has status success only when all three completed in order.
C16_StepOrder ==
    /\ \A i \in 1..Len(assets) :
        LET mine == StepsOf(i)
        IN  /\ Len(mine) <= 3
            /\ \A k \in 1..Len(mine) : mine[k][1] = StepOrder[k]
            /\ \A k \in 1..(Len(mine) - 1) : mine[k][2] = "ok"
            /\ (i <= Len(results) /\ results[i].status = "success")
                   => mine = <<<<"convert", "ok">>, <<"create", "ok">>, <<"load", "ok">>>>
    /\ \A k \in 1..(Len(steps) - 1) : steps[k][1] <= steps[k + 1][1]
    /\ pc = "create" => StepsOf(ai) = <<<<"convert", "ok">>>>
    /\ pc = "load" => StepsOf(ai) = <<<<"convert", "ok">>, <<"create", "ok">>>>

\* a run over two assets: the first went through all three steps and
\* succeeded, the second stopped at a create-table that raised
C16_Witness ==
    /\ pc = "done"
    /\ Len(results) = 2
    /\ results[1].status = "success"
    /\ StepsOf(1) = <<<<"convert", "ok">>, <<"create", "ok">>, <<"load", "ok">>>>
    /\ results[2].status = "failed"
    /\ StepsOf(2) = <<<<"convert", "ok">>, <<"create", "raised">>>>

\* the number of entries of a result list that carry a status
CountStatus(rs, status) == Cardinality({k \in 1..Len(rs) : rs[k].status = status})

\* C17: the returned summary has one result per parsed asset, in the
\* assets' order and with the asset's id; total_assets is the number of
\* assets; successful, failed and skipped are the numbers of results of
\* each status and add up to total_assets.
C17_Summary ==
    summary.called =>
        LET ret == summary.ret
        IN  /\ Len(ret.results) = Len(assets)
            /\ \A k \in 1..Len(assets) : ret.results[k].asset_id = assets[k].asset_id
            /\ ret.total_assets = Len(assets)
            /\ ret.successful = CountStatus(ret.results, "success")
            /\ ret.failed = CountStatus(ret.results, "failed")
            /\ ret.skipped = CountStatus(ret.results, "skipped")
            /\ ret.successful + ret.failed + ret.skipped = ret.total_assets
            /\ \A k \in 1..Len(ret.results) :
                   ret.results[k].status \in {"success", "failed", "skipped"}

\* a summary over two assets with different ids, one skipped and one failed
C17_Witness ==
    /\ summary.called
    /\ summary.ret.total_assets = 2
    /\ summary.ret.skipped = 1
    /\ summary.ret.failed = 1
    /\ summary.ret.results[1].asset_id # summary.ret.results[2].asset_id

\* no step taken while the assets are being processed leaves
\* run_archive_flow with an error
C18_NoEscape == (pc \in ArchivePcs \cup {"loop"}) => (pc' # "raised")

\* C18: a step that raises for an asset gives that asset a failed result;
\* the error never leaves run_archive_flow, which goes on through the
\* later assets and returns a summary with a result for every asset.
C18_FailureGoesOn ==
    /\ [][C18_NoEscape]_vars
    /\ [](\A k \in 1..Len(steps) :
            (steps[k][3] = "raised" /\ (steps[k][1] < ai \/ pc \notin ArchivePcs))
                => /\ steps[k][1] <= Len(results)
                   /\ results[steps[k][1]].status = "failed")
    /\ (failed > 0) ~> (/\ pc = "done"
                        /\ summary.called
                        /\ Len(summary.ret.results) = Len(assets)
                        /\ summary.ret.failed > 0)

\* the first of two assets failed in convert, the second was still taken
\* through its steps, and the summary was returned
C18_Witness ==
    /\ pc = "done"
    /\ Len(assets) = 2
    /\ StepsOf(1) = <<<<"convert", "raised">>>>
    /\ summary.ret.results[1].status = "failed"
    /\ StepsOf(2) # <<>>
    /\ summary.ret.results[2].status \in {"success", "failed"}

\* the asset's id maps to a file that exists
C19_HasFile(asset) ==
    /\ asset.asset_id \in DOMAIN source_files_map
    /\ source_files_map[asset.asset_id] \notin {None, <<>>}
    /\ source_files_map[asset.asset_id] \in FilesOnDisk

\* C19: an asset whose id has no entry or an empty one, or whose file does
\* not exist, gets a skipped result and no step; only an asset whose id
\* maps to an existing file is handed to archive_asset.
C19_SkipWithoutFile ==
    /\ \A i \in 1..Len(results) :
        IF C19_HasFile(assets[i])
        THEN results[i].status \in {"success", "failed"}
        ELSE /\ results[i].status = "skipped"
             /\ StepsOf(i) = <<>>
    /\ \A k \in 1..Len(steps) : C19_HasFile(assets[steps[k][1]])
    /\ pc \in ArchivePcs => C19_HasFile(assets[ai])

\* of two assets the first was skipped for a file that is not there and
\* the second, whose file exists, was archived
C19_Witness ==
    /\ pc = "done"
    /\ Len(results) = 2
    /\ results[1].status = "skipped"
    /\ results[1].reason = "File not found"
    /\ StepsOf(1) = <<>>
    /\ C19_HasFile(assets[2])
    /\ StepsOf(2) # <<>>

====
